---- MODULE Spec2Model ----
(***************************************************************************)
(* State-machine model of backend/main.py: the in-memory reading store,    *)
(* the threshold evaluation, the per-key alert cooldown, the notification  *)
(* dispatch over the SMS and voice-call channels, and the alert history.   *)
(*                                                                         *)
(* Time is counted in whole minutes.  Sensor values and thresholds are     *)
(* whole numbers (the code compares floats with < and > only).  A request  *)
(* handler is one action, and every datetime.now() it evaluates reads the  *)
(* same minute of a clock that never runs backwards.                       *)
(***************************************************************************)
EXTENDS Integers, Sequences, FiniteSets, TLC

\* ------------------------------------------------------------------ bounds
MaxTime == 3        \* the clock stops advancing here in Spec
MaxIngests == 2     \* POST /sensor-data requests in Spec
ShortCooldown == 2  \* ALERT_COOLDOWN_MINUTES of the environment in Spec
MaxAppends == 102   \* POST /sensor-data requests in SpecStore
MaxEvals == 1       \* POST /sensor-data requests in SpecEval
MaxDispatches == 2  \* POST /sensor-data requests in SpecDispatch
MaxStored == 3      \* POST /sensor-data requests in SpecQuery
MaxLimit == 4       \* largest ?limit= of GET /readings
MaxTimeE2E == 17    \* the clock stops advancing here in SpecE2E
MaxIngestsE2E == 3  \* POST /sensor-data requests in SpecE2E
MaxTestIngests == 1  \* POST /sensor-data requests in SpecTest
MaxThreadIngests == 101  \* POST /sensor-data requests in SpecThreads
QuietIngests == 100 \* requests posted in SpecThreads before the pool is used

\* ------------------------------------------------------- program constants
DefaultCooldown == 15
MAX_READINGS == 100
MAX_ALERTS == 50

THRESHOLDS ==
  [temp_max |-> 35, temp_min |-> 15, humidity_max |-> 80, humidity_min |-> 20,
   air_quality_max |-> 70]

\* ------------------------------------------------------------------- state
VARIABLES
  sensor_readings,   \* list of readings, oldest first
  alert_history,     \* list of AlertHistory records, oldest first
  last_alert_time,   \* dict: alert key -> time of the last successful dispatch
  alert_settings,    \* dict: enabled, alert_method and the five thresholds
  ALERT_COOLDOWN,    \* minutes, read from the environment at start-up
  twilio_client,     \* TRUE iff the Twilio client was created at start-up
  phone_numbers,     \* TRUE iff TWILIO_PHONE_NUMBER and ALERT_PHONE_NUMBER are set
  now,               \* the clock, in minutes
  ingest_count,      \* history: number of POST /sensor-data requests so far
  ingested,          \* history: readings appended since the last clear()
  result,            \* history: what the last request did and returned
  pc,                \* per thread: the statement it is about to execute
  locals             \* per thread: the local variables of its handler

\* What start-up reads from the environment and never changes afterwards.
config == <<ALERT_COOLDOWN, twilio_client, phone_numbers>>

\* Where the handlers stand when one is followed statement by statement.
threads == <<pc, locals>>

vars ==
  <<sensor_readings, alert_history, last_alert_time, alert_settings,
    ALERT_COOLDOWN, twilio_client, phone_numbers, now, ingest_count, ingested,
    result, pc, locals>>

\* ----------------------------------------------------------------- helpers
Min(a, b) == IF a < b THEN a ELSE b

Max(a, b) == IF a > b THEN a ELSE b

\* Python's list[start:] for any integer start.
PySliceFrom(s, start) ==
  LET n == Len(s)
      from == IF start < 0 THEN Max(n + start, 0) ELSE Min(start, n)
  IN  SubSeq(s, from + 1, n)

\* The last n elements of s (all of s when it is shorter); n >= 0.
LastN(s, n) == SubSeq(s, Len(s) - Min(n, Len(s)) + 1, Len(s))

\* A JSON value of the request body: a number, or something float() rejects.
Num(v) == [num |-> TRUE, val |-> v]

NotANumber == [num |-> FALSE, val |-> 0]

NumericFields == {"temperature", "humidity", "air_quality", "air_quality_raw"}

\* payload.get(key, default)
PayloadGet(payload, key, default) ==
  IF key \in DOMAIN payload THEN payload[key] ELSE default

\* ------------------------------------------------------------ alert_settings
DefaultSettings ==
  [enabled |-> TRUE, alert_method |-> "both",
   temp_max |-> THRESHOLDS.temp_max, temp_min |-> THRESHOLDS.temp_min,
   humidity_max |-> THRESHOLDS.humidity_max,
   humidity_min |-> THRESHOLDS.humidity_min,
   air_quality_max |-> THRESHOLDS.air_quality_max]

\* ------------------------------------------------------ notification channels
\* What the provider does with one request that reaches it.
Provider == {"ok", "raises"}

\* send_sms_alert without its try/except: the provider's exception escapes.
send_sms_alert_Unguarded(message, provider) ==
  IF ~twilio_client \/ ~phone_numbers
  THEN [ret |-> FALSE, exc |-> FALSE]
  ELSE IF provider = "ok"
       THEN [ret |-> TRUE, exc |-> FALSE]
       ELSE [ret |-> FALSE, exc |-> TRUE]

send_sms_alert(message, provider) ==
  IF ~twilio_client \/ ~phone_numbers
  THEN [ret |-> FALSE, exc |-> FALSE]
  ELSE IF provider = "ok"
       THEN [ret |-> TRUE, exc |-> FALSE]
       ELSE [ret |-> FALSE, exc |-> FALSE]

make_voice_call(message, provider) ==
  IF ~twilio_client \/ ~phone_numbers
  THEN [ret |-> FALSE, exc |-> FALSE]
  ELSE IF provider = "ok"
       THEN [ret |-> TRUE, exc |-> FALSE]
       ELSE [ret |-> FALSE, exc |-> FALSE]

\* The dispatch with the call as a fallback: the voice channel is tried only
\* when the SMS channel was not tried or did not succeed.
Dispatch_CallAsFallback(method, message, out) ==
  LET sms_called == method \in {"sms", "both"}
      sms == IF sms_called THEN send_sms_alert(message, out.sms)
             ELSE [ret |-> FALSE, exc |-> FALSE]
      success1 == IF sms_called THEN sms.ret ELSE FALSE
      call_called == method \in {"call", "both"} /\ ~sms.exc /\ ~success1
      call == IF call_called THEN make_voice_call(message, out.call)
              ELSE [ret |-> FALSE, exc |-> FALSE]
      success2 == IF call_called THEN (call.ret \/ success1) ELSE success1
  IN  [sms_called |-> sms_called, sms_ret |-> sms.ret,
       call_called |-> call_called, call_ret |-> call.ret,
       exc |-> sms.exc \/ call.exc,
       success |-> success2 /\ ~(sms.exc \/ call.exc)]

\* The dispatch with "success = make_voice_call(...)": the call's result
\* replaces the SMS result instead of being or-ed with it.
Dispatch_CallOverwrites(method, message, out) ==
  LET sms_called == method \in {"sms", "both"}
      sms == IF sms_called THEN send_sms_alert(message, out.sms)
             ELSE [ret |-> FALSE, exc |-> FALSE]
      success1 == IF sms_called THEN sms.ret ELSE FALSE
      call_called == method \in {"call", "both"} /\ ~sms.exc
      call == IF call_called THEN make_voice_call(message, out.call)
              ELSE [ret |-> FALSE, exc |-> FALSE]
      success2 == IF call_called THEN call.ret ELSE success1
  IN  [sms_called |-> sms_called, sms_ret |-> sms.ret,
       call_called |-> call_called, call_ret |-> call.ret,
       exc |-> sms.exc \/ call.exc,
       success |-> success2 /\ ~(sms.exc \/ call.exc)]

\* The channel attempts of one dispatch.  out.sms and out.call are what the
\* provider does with the SMS and with the call, should they be attempted.
\* An exception leaving a channel function ends the dispatch at that point.
Dispatch(method, message, out) ==
  LET sms_called == method \in {"sms", "both"}
      sms == IF sms_called THEN send_sms_alert(message, out.sms)
             ELSE [ret |-> FALSE, exc |-> FALSE]
      success1 == IF sms_called THEN sms.ret ELSE FALSE
      call_called == method \in {"call", "both"} /\ ~sms.exc
      call == IF call_called THEN make_voice_call(message, out.call)
              ELSE [ret |-> FALSE, exc |-> FALSE]
      success2 == IF call_called THEN (call.ret \/ success1) ELSE success1
  IN  [sms_called |-> sms_called, sms_ret |-> sms.ret,
       call_called |-> call_called, call_ret |-> call.ret,
       exc |-> sms.exc \/ call.exc,
       success |-> success2 /\ ~(sms.exc \/ call.exc)]

\* --------------------------------------------------------- threshold checks
Message(headline, value, threshold, unit) ==
  [headline |-> headline, current |-> value, threshold |-> threshold,
   unit |-> unit]

Alert(sensor, type, value, threshold, message) ==
  [sensor |-> sensor, type |-> type, value |-> value, threshold |-> threshold,
   message |-> message]

\* The temperature check with "if" for "elif": the low check no longer
\* depends on the high check.
TemperatureAlerts_Independent(reading, settings) ==
  (IF reading.temperature > settings.temp_max
   THEN <<Alert("temperature", "high", reading.temperature,
                settings.temp_max,
                Message("HIGH TEMPERATURE ALERT!", reading.temperature,
                        settings.temp_max, "C"))>>
   ELSE <<>>)
  \o (IF reading.temperature < settings.temp_min
      THEN <<Alert("temperature", "low", reading.temperature,
                   settings.temp_min,
                   Message("LOW TEMPERATURE ALERT!", reading.temperature,
                           settings.temp_min, "C"))>>
      ELSE <<>>)

TemperatureAlerts(reading, settings) ==
  IF reading.temperature > settings.temp_max
  THEN <<Alert("temperature", "high", reading.temperature, settings.temp_max,
               Message("HIGH TEMPERATURE ALERT!", reading.temperature,
                       settings.temp_max, "C"))>>
  ELSE IF reading.temperature < settings.temp_min
       THEN <<Alert("temperature", "low", reading.temperature,
                    settings.temp_min,
                    Message("LOW TEMPERATURE ALERT!", reading.temperature,
                            settings.temp_min, "C"))>>
       ELSE <<>>

HumidityAlerts(reading, settings) ==
  IF reading.humidity > settings.humidity_max
  THEN <<Alert("humidity", "high", reading.humidity, settings.humidity_max,
               Message("HIGH HUMIDITY ALERT!", reading.humidity,
                       settings.humidity_max, "%"))>>
  ELSE IF reading.humidity < settings.humidity_min
       THEN <<Alert("humidity", "low", reading.humidity,
                    settings.humidity_min,
                    Message("LOW HUMIDITY ALERT!", reading.humidity,
                            settings.humidity_min, "%"))>>
       ELSE <<>>

AirQualityAlerts(reading, settings) ==
  IF reading.air_quality > settings.air_quality_max
  THEN <<Alert("air_quality", "high", reading.air_quality,
               settings.air_quality_max,
               Message("POOR AIR QUALITY ALERT!", reading.air_quality,
                       settings.air_quality_max, "%"))>>
  ELSE <<>>

\* The list alerts_to_send of check_and_send_alerts.
alerts_to_send(reading, settings) ==
  TemperatureAlerts(reading, settings) \o HumidityAlerts(reading, settings)
    \o AirQualityAlerts(reading, settings)

alert_key(alert) == alert.sensor \o "_" \o alert.type

\* The cooldown test with one cooldown for all keys: an entry of any key
\* younger than ALERT_COOLDOWN suppresses the alert.
CooldownActive_AnyKey(lat, key, current_time) ==
  \E k \in DOMAIN lat : current_time - lat[k] < ALERT_COOLDOWN

\* The cooldown test with a window of half the length.
CooldownActive_HalfWindow(lat, key, current_time) ==
  /\ key \in DOMAIN lat
  /\ 2 * (current_time - lat[key]) < ALERT_COOLDOWN

\* --------------------------------------------------------------- cooldown
\* The cooldown check with <= for <: still active when exactly the cooldown
\* has passed.
CooldownActive_Inclusive(lat, key, current_time) ==
  /\ key \in DOMAIN lat
  /\ current_time - lat[key] <= ALERT_COOLDOWN

\* The cooldown check with timedelta(seconds=ALERT_COOLDOWN): the elapsed
\* minutes are compared, as seconds, with the cooldown.
CooldownActive_Seconds(lat, key, current_time) ==
  /\ key \in DOMAIN lat
  /\ (current_time - lat[key]) * 60 < ALERT_COOLDOWN

\* TRUE iff the cooldown check of the loop skips the alert (the "continue").
\* lat is last_alert_time as the iteration finds it.
CooldownActive(lat, key, current_time) ==
  /\ key \in DOMAIN lat
  /\ current_time - lat[key] < ALERT_COOLDOWN

\* dict[key] = value
DictSet(d, key, value) ==
  [k \in DOMAIN d \cup {key} |-> IF k = key THEN value ELSE d[k]]

\* alert_history.append(record), then pop(0) when longer than MAX_ALERTS.
AppendAlert(history, record) ==
  LET appended == Append(history, record)
  IN  IF Len(appended) > MAX_ALERTS THEN Tail(appended) ELSE appended

\* What one alert of the loop may meet: the provider's answer on each channel.
Outcome == [sms : Provider, call : Provider]

\* The answers to draw from.  Without the client or the phone numbers no
\* request reaches the provider, and one answer stands for all of them.
Answers ==
  IF twilio_client /\ phone_numbers
  THEN Outcome
  ELSE {[sms |-> "raises", call |-> "raises"]}

\* The record step without its "if success": every attempt starts a cooldown
\* and is written to the history.
RecordAlert_Always(st, alert, key, current_time, method, success) ==
  [st EXCEPT
     !.lat = DictSet(@, key, current_time),
     !.hist = AppendAlert(@,
                [timestamp |-> current_time, alert_type |-> alert.type,
                 sensor |-> alert.sensor, value |-> alert.value,
                 threshold |-> alert.threshold, method |-> method,
                 status |-> "sent"])]

\* The record step with the history append outside the "if success": a failed
\* attempt is written to the history too.
RecordAlert_LogsFailures(st, alert, key, current_time, method, success) ==
  [st EXCEPT
     !.lat = IF success THEN DictSet(@, key, current_time) ELSE @,
     !.hist = AppendAlert(@,
                [timestamp |-> current_time, alert_type |-> alert.type,
                 sensor |-> alert.sensor, value |-> alert.value,
                 threshold |-> alert.threshold, method |-> method,
                 status |-> "sent"])]

\* The "Record alert" step of the loop: on success the cooldown entry of the
\* key and the history record are written together.
RecordAlert(st, alert, key, current_time, method, success) ==
  IF success
  THEN [st EXCEPT
          !.lat = DictSet(@, key, current_time),
          !.hist = AppendAlert(@,
                     [timestamp |-> current_time, alert_type |-> alert.type,
                      sensor |-> alert.sensor, value |-> alert.value,
                      threshold |-> alert.threshold, method |-> method,
                      status |-> "sent"])]
  ELSE st

\* One iteration of the loop "for alert in alerts_to_send" on the loop state
\* st = [lat, hist, log, exc]; current_time is its datetime.now().  The log
\* gets one entry per iteration: what was decided, called and returned.
SendOne(alert, out, method, current_time, st) ==
  LET key == alert_key(alert)
      skipped == CooldownActive(st.lat, key, current_time)
      d == Dispatch(method, alert.message, out)
      entry == [key |-> key, time |-> current_time, skipped |-> skipped,
                sms_called |-> ~skipped /\ d.sms_called,
                sms_ret |-> ~skipped /\ d.sms_ret,
                call_called |-> ~skipped /\ d.call_called,
                call_ret |-> ~skipped /\ d.call_ret,
                success |-> ~skipped /\ d.success]
      logged == [st EXCEPT !.log = Append(@, entry)]
  IN  IF skipped
      THEN logged
      ELSE IF d.exc
           THEN [logged EXCEPT !.exc = TRUE]
           ELSE RecordAlert(logged, alert, key, current_time, method,
                            d.success)

RECURSIVE SendAlerts(_, _, _, _, _, _)
SendAlerts(alerts, outs, method, current_time, i, st) ==
  IF i > Len(alerts) \/ st.exc
  THEN st
  ELSE SendAlerts(alerts, outs, method, current_time, i + 1,
                  SendOne(alerts[i], outs[i], method, current_time, st))

\* The alerts the handler evaluates: none when alerts are disabled.
Candidates(reading, settings) ==
  IF ~settings.enabled THEN <<>> ELSE alerts_to_send(reading, settings)

\* check_and_send_alerts(reading) with outs[i] met by the i-th alert.  Returns
\* the loop state after the last iteration.
check_and_send_alerts(reading, outs) ==
  SendAlerts(Candidates(reading, alert_settings), outs,
             alert_settings.alert_method, now, 1,
             [lat |-> last_alert_time, hist |-> alert_history, log |-> <<>>,
              exc |-> FALSE])

\* ---------------------------------------------------------------- results
\* The three collections as the request found them.
Before ==
  [readings |-> sensor_readings, history |-> alert_history,
   lat |-> last_alert_time]

\* The record of a request: its route and argument, the collections before
\* it, the status and payload of its response, and for POST /sensor-data the
\* alerts evaluated and the log of the loop over them.
Result(op, arg, status, count, data) ==
  [op |-> op, arg |-> arg, before |-> Before, status |-> status,
   count |-> count, data |-> data, alerts |-> <<>>, log |-> <<>>]

\* The last request was a POST /sensor-data that built and stored a reading.
IsIngest == result.op = "receive_sensor_data" /\ result.data # <<>>

\* The entry's iteration called a notification channel.
Attempted(e) == e.sms_called \/ e.call_called

LogEntries == {result.log[i] : i \in 1..Len(result.log)}

\* Every channel called by the last request returned True.
ChannelsSucceed ==
  \A e \in LogEntries :
    /\ e.sms_called => e.sms_ret
    /\ e.call_called => e.call_ret

\* ------------------------------------------------------------------ routes
\* The append with pop() for pop(0): the newest reading is evicted.
AppendReading_PopsLast(readings, reading) ==
  LET appended == Append(readings, reading)
  IN  IF Len(appended) > MAX_READINGS
      THEN SubSeq(appended, 1, Len(appended) - 1)
      ELSE appended

\* sensor_readings.append(reading), then pop(0) when longer than MAX_READINGS.
AppendReading(readings, reading) ==
  LET appended == Append(readings, reading)
  IN  IF Len(appended) > MAX_READINGS THEN Tail(appended) ELSE appended

\* The SensorDataWithTimestamp built from the request body.
MakeReading(payload, t) ==
  [device_id |-> PayloadGet(payload, "device_id", "unknown"),
   temperature |-> PayloadGet(payload, "temperature", Num(0)).val,
   humidity |-> PayloadGet(payload, "humidity", Num(0)).val,
   air_quality |-> PayloadGet(payload, "air_quality", Num(0)).val,
   air_quality_raw |-> PayloadGet(payload, "air_quality_raw", Num(0)).val,
   timestamp |-> t]

\* TRUE iff float() or int() raises on a field of the request body.
ConversionFails(payload) ==
  \E f \in NumericFields : f \in DOMAIN payload /\ ~payload[f].num

\* POST /sensor-data.  An exception anywhere in the handler becomes the
\* error response; what was stored before it stays stored.
receive_sensor_data(payload) ==
  IF ConversionFails(payload)
  THEN /\ result' = Result("receive_sensor_data", 0, "error", 0, <<>>)
       /\ ingest_count' = ingest_count + 1
       /\ UNCHANGED <<threads, sensor_readings, alert_history,
                      last_alert_time, alert_settings, config, now, ingested>>
  ELSE \E reading \in {MakeReading(payload, now)} :
       \E alerts \in {Candidates(reading, alert_settings)} :
       \E outs \in [1..Len(alerts) -> Answers] :
       \E st \in {check_and_send_alerts(reading, outs)} :
         /\ sensor_readings' = AppendReading(sensor_readings, reading)
         /\ ingested' = Append(ingested, reading)
         /\ ingest_count' = ingest_count + 1
         /\ last_alert_time' = st.lat
         /\ alert_history' = st.hist
         /\ result' =
              [Result("receive_sensor_data", 0,
                      IF st.exc THEN "error" ELSE "success", 1, <<reading>>)
                 EXCEPT !.alerts = alerts, !.log = st.log]
         /\ UNCHANGED <<threads, alert_settings, config, now>>

\* GET /readings?limit=
get_all(limit) ==
  LET readings == IF sensor_readings # <<>>
                  THEN PySliceFrom(sensor_readings, -limit)
                  ELSE <<>>
  IN  /\ result' = Result("get_all", limit, "success", Len(readings), readings)
      /\ UNCHANGED <<threads, sensor_readings, alert_history, last_alert_time,
                     alert_settings, config, now, ingest_count, ingested>>

\* PUT /alert-settings
update_alert_settings(settings) ==
  /\ alert_settings' = settings
  /\ result' = Result("update_alert_settings", 0, "success", 0, <<>>)
  /\ UNCHANGED <<threads, sensor_readings, alert_history, last_alert_time,
                 config, now, ingest_count, ingested>>

\* DELETE /readings
clear ==
  /\ sensor_readings' = <<>>
  /\ ingested' = <<>>
  /\ result' = Result("clear", 0, "success", Len(sensor_readings), <<>>)
  /\ UNCHANGED <<threads, alert_history, last_alert_time, alert_settings,
                 config, now, ingest_count>>

\* POST /test-alert that respects the alert switch: with alerts disabled it
\* answers with an error and calls no channel.
test_alert_Gated(method) ==
  /\ IF ~twilio_client \/ ~alert_settings.enabled
     THEN result' = Result("test_alert", method, "error", 0, <<>>)
     ELSE \E out \in Answers :
            LET d == Dispatch(method, "test", out)
            IN  result' =
                  [Result("test_alert", method,
                          IF d.success THEN "success" ELSE "error", 0, <<>>)
                     EXCEPT !.log =
                       <<[key |-> "test", time |-> now, skipped |-> FALSE,
                          sms_called |-> d.sms_called, sms_ret |-> d.sms_ret,
                          call_called |-> d.call_called,
                          call_ret |-> d.call_ret, success |-> d.success]>>]
  /\ UNCHANGED <<threads, sensor_readings, alert_history, last_alert_time,
                 alert_settings, config, now, ingest_count, ingested>>

\* POST /test-alert?method=
test_alert(method) ==
  /\ IF ~twilio_client
     THEN result' = Result("test_alert", method, "error", 0, <<>>)
     ELSE \E out \in Answers :
            LET d == Dispatch(method, "test", out)
            IN  result' =
                  [Result("test_alert", method,
                          IF d.success THEN "success" ELSE "error", 0, <<>>)
                     EXCEPT !.log =
                       <<[key |-> "test", time |-> now, skipped |-> FALSE,
                          sms_called |-> d.sms_called, sms_ret |-> d.sms_ret,
                          call_called |-> d.call_called,
                          call_ret |-> d.call_ret, success |-> d.success]>>]
  /\ UNCHANGED <<threads, sensor_readings, alert_history, last_alert_time,
                 alert_settings, config, now, ingest_count, ingested>>

\* DELETE /alert-history without "last_alert_time = {}".
clear_alerts_KeepsCooldown ==
  /\ alert_history' = <<>>
  /\ result' = Result("clear_alerts", 0, "success", Len(alert_history), <<>>)
  /\ UNCHANGED <<threads, sensor_readings, last_alert_time, alert_settings,
                 config, now, ingest_count, ingested>>

\* DELETE /alert-history
clear_alerts ==
  /\ alert_history' = <<>>
  /\ last_alert_time' = <<>>
  /\ result' = Result("clear_alerts", 0, "success", Len(alert_history), <<>>)
  /\ UNCHANGED <<threads, sensor_readings, alert_settings, config, now,
                 ingest_count, ingested>>

\* A minute passes between two requests, up to the minute limit.
Advance(limit) ==
  /\ now < limit
  /\ now' = now + 1
  /\ result' = Result("tick", 0, "none", 0, <<>>)
  /\ UNCHANGED <<threads, sensor_readings, alert_history, last_alert_time,
                 alert_settings, config, ingest_count, ingested>>

Tick == Advance(MaxTime)

\* ------------------------------------------------------------ request values
Body(device_id, temperature, humidity, air_quality, air_quality_raw) ==
  [f \in {"device_id"} \cup NumericFields |->
     CASE f = "device_id" -> device_id
       [] f = "temperature" -> Num(temperature)
       [] f = "humidity" -> Num(humidity)
       [] f = "air_quality" -> Num(air_quality)
       [] f = "air_quality_raw" -> Num(air_quality_raw)]

HotBody == Body("esp32", 40, 50, 10, 500)

\* The request bodies of Spec: one that is too hot and too humid (two alerts,
\* temperature_high and humidity_high) and one that is too cold (one alert,
\* temperature_low).
Payloads == {Body("esp32", 40, 90, 10, 500), Body("esp32", 10, 50, 10, 500)}

\* The settings PUT /alert-settings is called with in Spec.
SettingsValues ==
  {DefaultSettings,
   [DefaultSettings EXCEPT !.enabled = FALSE]}

\* ---------------------------------------------------------------- threads
\* The event loop runs the "async def" handlers, one request at a time; the
\* "def" handlers run in the worker threads of the pool, beside the event
\* loop and beside each other.
Workers == {"worker1", "worker2"}

Threads == {"loop"} \cup Workers

\* The local variables of the handlers before any of them has run.
NoLocals ==
  [loop |-> [reading |-> MakeReading(<<>>, 0), alerts |-> <<>>, i |-> 0,
             current_time |-> 0, success |-> FALSE],
   worker1 |-> [count |-> 0, temps |-> <<>>, hums |-> <<>>],
   worker2 |-> [count |-> 0, temps |-> <<>>, hums |-> <<>>]]

\* The thread moves to a statement.
Goto(t, label) == pc' = [pc EXCEPT ![t] = label]

\* The thread's handler returns or raises: its frame is gone.
Leave(t) ==
  /\ pc' = [pc EXCEPT ![t] = "idle"]
  /\ locals' = [locals EXCEPT ![t] = NoLocals[t]]

\* The response of a POST /sensor-data that got as far as storing its reading.
IngestResult(status) ==
  [Result("receive_sensor_data", 0, status, 1, <<locals.loop.reading>>)
     EXCEPT !.alerts = locals.loop.alerts]

\* "except Exception" of receive_sensor_data: the request ends with HTTP 500.
receive_sensor_data_except ==
  /\ result' = IngestResult("error")
  /\ Leave("loop")

\* "return" of receive_sensor_data.
receive_sensor_data_return ==
  /\ result' = IngestResult("success")
  /\ Leave("loop")

\* Lines 279-291: the reading is built and appended.
receive_sensor_data_append(payload) ==
  /\ pc["loop"] = "idle"
  /\ ingest_count' = ingest_count + 1
  /\ IF ConversionFails(payload)
     THEN /\ result' = Result("receive_sensor_data", 0, "error", 0, <<>>)
          /\ UNCHANGED <<sensor_readings, ingested, threads>>
     ELSE \E reading \in {MakeReading(payload, now)} :
            /\ sensor_readings' = Append(sensor_readings, reading)
            /\ ingested' = Append(ingested, reading)
            /\ locals' = [locals EXCEPT
                            !.loop = [NoLocals.loop EXCEPT !.reading = reading]]
            /\ Goto("loop", "len_readings")
            /\ UNCHANGED result
  /\ UNCHANGED <<alert_history, last_alert_time, alert_settings, config, now>>

\* Line 292: if len(sensor_readings) > MAX_READINGS
receive_sensor_data_len ==
  /\ pc["loop"] = "len_readings"
  /\ Goto("loop", IF Len(sensor_readings) > MAX_READINGS
                  THEN "pop_readings" ELSE "enabled")
  /\ UNCHANGED <<sensor_readings, alert_history, last_alert_time,
                 alert_settings, config, now, ingest_count, ingested, result,
                 locals>>

\* Line 293: sensor_readings.pop(0); IndexError on an empty list.
receive_sensor_data_pop ==
  /\ pc["loop"] = "pop_readings"
  /\ IF sensor_readings = <<>>
     THEN /\ receive_sensor_data_except
          /\ UNCHANGED sensor_readings
     ELSE /\ sensor_readings' = Tail(sensor_readings)
          /\ Goto("loop", "enabled")
          /\ UNCHANGED <<result, locals>>
  /\ UNCHANGED <<alert_history, last_alert_time, alert_settings, config, now,
                 ingest_count, ingested>>

\* Lines 173-222: the enabled check and the threshold checks.
check_and_send_alerts_enabled ==
  /\ pc["loop"] = "enabled"
  /\ locals' = [locals EXCEPT
                  !.loop.alerts = Candidates(locals.loop.reading,
                                             alert_settings),
                  !.loop.i = 1]
  /\ Goto("loop", "for_alert")
  /\ UNCHANGED <<sensor_readings, alert_history, last_alert_time,
                 alert_settings, config, now, ingest_count, ingested, result>>

\* The alert of the current iteration and its key.
CurrentAlert == locals.loop.alerts[locals.loop.i]

CurrentKey == alert_key(CurrentAlert)

\* The loop goes on to its next alert.
Continue ==
  locals' = [locals EXCEPT !.loop.i = @ + 1]

\* Lines 225-230: the next alert, its datetime.now(), and
\* "if alert_key in last_alert_time"; after the last alert the handler returns.
check_and_send_alerts_for ==
  /\ pc["loop"] = "for_alert"
  /\ IF locals.loop.i > Len(locals.loop.alerts)
     THEN receive_sensor_data_return
     ELSE /\ locals' = [locals EXCEPT !.loop.current_time = now,
                                      !.loop.success = FALSE]
          /\ Goto("loop", IF CurrentKey \in DOMAIN last_alert_time
                          THEN "cooldown" ELSE "send_sms")
          /\ UNCHANGED result
  /\ UNCHANGED <<sensor_readings, alert_history, last_alert_time,
                 alert_settings, config, now, ingest_count, ingested>>

\* Lines 231-234: last_alert_time[alert_key] is read (KeyError when the key
\* is not there) and compared with the cooldown.
check_and_send_alerts_cooldown ==
  /\ pc["loop"] = "cooldown"
  /\ IF CurrentKey \notin DOMAIN last_alert_time
     THEN receive_sensor_data_except
     ELSE /\ IF CooldownActive(last_alert_time, CurrentKey,
                               locals.loop.current_time)
             THEN /\ Continue
                  /\ Goto("loop", "for_alert")
             ELSE /\ Goto("loop", "send_sms")
                  /\ UNCHANGED locals
          /\ UNCHANGED result
  /\ UNCHANGED <<sensor_readings, alert_history, last_alert_time,
                 alert_settings, config, now, ingest_count, ingested>>

\* What the provider may do with a request that reaches it: one of the
\* given answers; without the client or the phone numbers none reaches it.
ProviderAnswers(answers) ==
  IF twilio_client /\ phone_numbers THEN answers ELSE {"raises"}

\* Lines 240-241: the SMS channel.  A provider that never answers leaves the
\* event loop inside twilio_client.messages.create.
check_and_send_alerts_sms(answers) ==
  /\ pc["loop"] = "send_sms"
  /\ IF alert_settings.alert_method \in {"sms", "both"}
     THEN \E provider \in ProviderAnswers(answers) :
            IF provider = "hangs"
            THEN /\ Goto("loop", "in_messages_create")
                 /\ UNCHANGED locals
            ELSE /\ locals' =
                      [locals EXCEPT !.loop.success =
                         send_sms_alert(CurrentAlert.message, provider).ret]
                 /\ Goto("loop", "make_call")
     ELSE /\ Goto("loop", "make_call")
          /\ UNCHANGED locals
  /\ UNCHANGED <<sensor_readings, alert_history, last_alert_time,
                 alert_settings, config, now, ingest_count, ingested, result>>

\* Lines 243-247: the voice channel and "if success".
check_and_send_alerts_call(answers) ==
  /\ pc["loop"] = "make_call"
  /\ IF alert_settings.alert_method \in {"call", "both"}
     THEN \E provider \in ProviderAnswers(answers) :
            IF provider = "hangs"
            THEN /\ Goto("loop", "in_calls_create")
                 /\ UNCHANGED locals
            ELSE \E success \in
                     {make_voice_call(CurrentAlert.message, provider).ret
                        \/ locals.loop.success} :
                   IF success
                   THEN /\ locals' = [locals EXCEPT !.loop.success = TRUE]
                        /\ Goto("loop", "set_last")
                   ELSE /\ Continue
                        /\ Goto("loop", "for_alert")
     ELSE IF locals.loop.success
          THEN /\ Goto("loop", "set_last")
               /\ UNCHANGED locals
          ELSE /\ Continue
               /\ Goto("loop", "for_alert")
  /\ UNCHANGED <<sensor_readings, alert_history, last_alert_time,
                 alert_settings, config, now, ingest_count, ingested, result>>

\* Line 248: last_alert_time[alert_key] = current_time
check_and_send_alerts_set_last ==
  /\ pc["loop"] = "set_last"
  /\ last_alert_time' =
       DictSet(last_alert_time, CurrentKey, locals.loop.current_time)
  /\ Goto("loop", "append_alert")
  /\ UNCHANGED <<sensor_readings, alert_history, alert_settings, config, now,
                 ingest_count, ingested, result, locals>>

\* Lines 249-258: alert_history.append(alert_record)
check_and_send_alerts_append ==
  /\ pc["loop"] = "append_alert"
  /\ alert_history' =
       Append(alert_history,
              [timestamp |-> locals.loop.current_time,
               alert_type |-> CurrentAlert.type,
               sensor |-> CurrentAlert.sensor, value |-> CurrentAlert.value,
               threshold |-> CurrentAlert.threshold,
               method |-> alert_settings.alert_method, status |-> "sent"])
  /\ Goto("loop", "len_alerts")
  /\ UNCHANGED <<sensor_readings, last_alert_time, alert_settings, config,
                 now, ingest_count, ingested, result, locals>>

\* Line 259: if len(alert_history) > MAX_ALERTS
check_and_send_alerts_len ==
  /\ pc["loop"] = "len_alerts"
  /\ IF Len(alert_history) > MAX_ALERTS
     THEN /\ Goto("loop", "pop_alerts")
          /\ UNCHANGED locals
     ELSE /\ Continue
          /\ Goto("loop", "for_alert")
  /\ UNCHANGED <<sensor_readings, alert_history, last_alert_time,
                 alert_settings, config, now, ingest_count, ingested, result>>

\* Line 260: alert_history.pop(0); IndexError on an empty list.
check_and_send_alerts_pop ==
  /\ pc["loop"] = "pop_alerts"
  /\ IF alert_history = <<>>
     THEN /\ receive_sensor_data_except
          /\ UNCHANGED alert_history
     ELSE /\ alert_history' = Tail(alert_history)
          /\ Continue
          /\ Goto("loop", "for_alert")
          /\ UNCHANGED result
  /\ UNCHANGED <<sensor_readings, last_alert_time, alert_settings, config,
                 now, ingest_count, ingested>>

\* A statement of POST /sensor-data after the append, on the event loop.
LoopStep(answers) ==
  \/ receive_sensor_data_len
  \/ receive_sensor_data_pop
  \/ check_and_send_alerts_enabled
  \/ check_and_send_alerts_for
  \/ check_and_send_alerts_cooldown
  \/ check_and_send_alerts_sms(answers)
  \/ check_and_send_alerts_call(answers)
  \/ check_and_send_alerts_set_last
  \/ check_and_send_alerts_append
  \/ check_and_send_alerts_len
  \/ check_and_send_alerts_pop

\* DELETE /readings, line 401: count = len(sensor_readings)
clear_len(t) ==
  /\ pc[t] = "idle"
  /\ locals' = [locals EXCEPT ![t].count = Len(sensor_readings)]
  /\ Goto(t, "clear_rebind")
  /\ UNCHANGED <<sensor_readings, alert_history, last_alert_time,
                 alert_settings, config, now, ingest_count, ingested, result>>

\* DELETE /readings, lines 402-403: sensor_readings = [] and the response.
clear_rebind(t) ==
  /\ pc[t] = "clear_rebind"
  /\ sensor_readings' = <<>>
  /\ ingested' = <<>>
  /\ result' = Result("clear", 0, "success", locals[t].count, <<>>)
  /\ Leave(t)
  /\ UNCHANGED <<alert_history, last_alert_time, alert_settings, config, now,
                 ingest_count>>

\* DELETE /alert-history, line 408: count = len(alert_history)
clear_alerts_len(t) ==
  /\ pc[t] = "idle"
  /\ locals' = [locals EXCEPT ![t].count = Len(alert_history)]
  /\ Goto(t, "clear_alerts_history")
  /\ UNCHANGED <<sensor_readings, alert_history, last_alert_time,
                 alert_settings, config, now, ingest_count, ingested, result>>

\* DELETE /alert-history, line 409: alert_history = []
clear_alerts_history(t) ==
  /\ pc[t] = "clear_alerts_history"
  /\ alert_history' = <<>>
  /\ Goto(t, "clear_alerts_last")
  /\ UNCHANGED <<sensor_readings, last_alert_time, alert_settings, config,
                 now, ingest_count, ingested, result, locals>>

\* DELETE /alert-history, lines 410-411: last_alert_time = {} and the response.
clear_alerts_last(t) ==
  /\ pc[t] = "clear_alerts_last"
  /\ last_alert_time' = <<>>
  /\ result' = Result("clear_alerts", 0, "success", locals[t].count, <<>>)
  /\ Leave(t)
  /\ UNCHANGED <<sensor_readings, alert_history, alert_settings, config, now,
                 ingest_count, ingested>>

\* GET /, line 271: total_readings = len(sensor_readings)
root(t) ==
  /\ pc[t] = "idle"
  /\ result' = Result("root", 0, "online", Len(sensor_readings), <<>>)
  /\ UNCHANGED <<sensor_readings, alert_history, last_alert_time,
                 alert_settings, config, now, ingest_count, ingested, threads>>

\* GET /statistics, lines 320-321: if not sensor_readings
get_statistics_check(t) ==
  /\ pc[t] = "idle"
  /\ IF sensor_readings = <<>>
     THEN /\ result' = Result("get_statistics", 0, "no_data", 0, <<>>)
          /\ UNCHANGED threads
     ELSE /\ Goto(t, "temps")
          /\ UNCHANGED <<result, locals>>
  /\ UNCHANGED <<sensor_readings, alert_history, last_alert_time,
                 alert_settings, config, now, ingest_count, ingested>>

\* GET /statistics, line 323: the readings that temps is built from.
get_statistics_temps(t) ==
  /\ pc[t] = "temps"
  /\ locals' = [locals EXCEPT ![t].temps = sensor_readings]
  /\ Goto(t, "hums")
  /\ UNCHANGED <<sensor_readings, alert_history, last_alert_time,
                 alert_settings, config, now, ingest_count, ingested, result>>

\* GET /statistics, line 324: the readings that hums is built from.
get_statistics_hums(t) ==
  /\ pc[t] = "hums"
  /\ locals' = [locals EXCEPT ![t].hums = sensor_readings]
  /\ Goto(t, "aqs")
  /\ UNCHANGED <<sensor_readings, alert_history, last_alert_time,
                 alert_settings, config, now, ingest_count, ingested, result>>

\* GET /statistics, lines 325-335: the readings that aqs is built from, and
\* the response.  min() of an empty list raises ValueError: HTTP 500.
get_statistics_aqs(t) ==
  /\ pc[t] = "aqs"
  /\ \E lists \in
         {<<locals[t].temps, locals[t].hums, sensor_readings>>} :
       result' =
         Result("get_statistics", 0,
                IF \E i \in 1..3 : lists[i] = <<>> THEN "error" ELSE "success",
                3, lists)
  /\ Leave(t)
  /\ UNCHANGED <<sensor_readings, alert_history, last_alert_time,
                 alert_settings, config, now, ingest_count, ingested>>

\* A request other than DELETE /readings arrives at the pool and its handler
\* runs its first statement.
WorkerStart(t) ==
  \/ clear_alerts_len(t)
  \/ root(t)
  \/ get_statistics_check(t)

\* A later statement of the handler running in the worker thread.
WorkerStep(t) ==
  \/ clear_rebind(t)
  \/ clear_alerts_history(t)
  \/ clear_alerts_last(t)
  \/ get_statistics_temps(t)
  \/ get_statistics_hums(t)
  \/ get_statistics_aqs(t)

\* ----------------------------------------------------------- specification
\* The state after start-up, whatever the environment configures.
Start ==
  /\ sensor_readings = <<>>
  /\ alert_history = <<>>
  /\ last_alert_time = <<>>
  /\ now = 0
  /\ ingest_count = 0
  /\ ingested = <<>>
  /\ result = Result("start", 0, "none", 0, <<>>)
  /\ pc = [t \in Threads |-> "idle"]
  /\ locals = NoLocals

\* Spec: the alerting engine under a short cooldown.
Init ==
  /\ Start
  /\ alert_settings = DefaultSettings
  /\ ALERT_COOLDOWN = ShortCooldown
  /\ twilio_client \in BOOLEAN
  /\ phone_numbers \in BOOLEAN

Next ==
  \/ ingest_count < MaxIngests /\ \E payload \in Payloads :
       receive_sensor_data(payload)
  \/ \E settings \in SettingsValues : update_alert_settings(settings)
  \/ clear
  \/ clear_alerts
  \/ Tick

Spec == Init /\ [][Next]_vars

\* SpecEval: one reading evaluated by a server started with any of a grid of
\* settings (thresholds with min < max, min = max and min > max).
EvalSettings ==
  {[DefaultSettings EXCEPT !.temp_max = t[1], !.temp_min = t[2],
                           !.humidity_max = h[1], !.humidity_min = h[2]] :
     t \in {<<35, 15>>, <<15, 35>>, <<15, 15>>},
     h \in {<<80, 20>>, <<20, 80>>}}

\* Readings that move one value at a time across its thresholds, and two
\* readings with an alert for each of the three sensors.
EvalPayloads ==
  {Body("esp32", t, 50, 10, 500) : t \in {14, 15, 16, 35, 36}}
  \cup {Body("esp32", 25, h, 10, 500) : h \in {19, 20, 81}}
  \cup {Body("esp32", 25, 50, a, 500) : a \in {70, 71}}
  \cup {Body("esp32", 36, 81, 71, 500), Body("esp32", 14, 19, 71, 500)}

InitEval ==
  /\ Start
  /\ alert_settings \in EvalSettings
  /\ ALERT_COOLDOWN = DefaultCooldown
  /\ twilio_client \in BOOLEAN
  /\ phone_numbers \in BOOLEAN

NextEval ==
  ingest_count < MaxEvals /\ \E payload \in EvalPayloads :
    receive_sensor_data(payload)

SpecEval == InitEval /\ [][NextEval]_vars

\* SpecDispatch: the dispatcher under every alert method and every answer of
\* the provider, reached from the alert loop (a reading that is too hot and
\* too humid) and from POST /test-alert.
Methods == {"sms", "call", "both"}

MethodSettings == {[DefaultSettings EXCEPT !.alert_method = m] : m \in Methods}

NextDispatch ==
  \/ ingest_count < MaxDispatches /\
       receive_sensor_data(Body("esp32", 40, 90, 10, 500))
  \/ \E settings \in MethodSettings : update_alert_settings(settings)
  \/ \E method \in Methods : test_alert(method)
  \/ clear_alerts

SpecDispatch == Init /\ [][NextDispatch]_vars

\* SpecE2E: a configured server with the default settings and the default
\* cooldown receives the same too-hot reading at any minutes, and the
\* provider accepts every SMS and every call.
InitE2E ==
  /\ Start
  /\ alert_settings = DefaultSettings
  /\ ALERT_COOLDOWN = DefaultCooldown
  /\ twilio_client = TRUE
  /\ phone_numbers = TRUE

NextE2E ==
  \/ /\ ingest_count < MaxIngestsE2E
     /\ receive_sensor_data(HotBody)
     /\ ChannelsSucceed'
  \/ Advance(MaxTimeE2E)

SpecE2E == InitE2E /\ [][NextE2E]_vars

\* SpecStore: more than MAX_READINGS readings in a row, the n-th request
\* carrying air_quality_raw = n, with DELETE /readings at any point.
NextStore ==
  \/ ingest_count < MaxAppends /\
       receive_sensor_data(Body("esp32", 25, 50, 10, ingest_count + 1))
  \/ clear

SpecStore == Init /\ [][NextStore]_vars

\* SpecQuery: GET /readings with any limit on a store of a few readings from
\* two devices, from an empty request body and from one whose temperature
\* is not a number.
QueryPayloads ==
  {Body("esp32", 25, 50, 10, 500), Body("node2", 26, 51, 11, 600), <<>>,
   [f \in {"temperature"} |-> NotANumber]}

NextQuery ==
  \/ ingest_count < MaxStored /\ \E payload \in QueryPayloads :
       receive_sensor_data(payload)
  \/ \E limit \in 0..MaxLimit : get_all(limit)
  \/ clear

SpecQuery == Init /\ [][NextQuery]_vars

\* SpecTest: POST /test-alert with any method, with alerts enabled or
\* disabled, before and after a too-hot reading has started a cooldown.
NextTest ==
  \/ ingest_count < MaxTestIngests /\ receive_sensor_data(HotBody)
  \/ \E settings \in SettingsValues : update_alert_settings(settings)
  \/ \E method \in Methods : test_alert(method)
  \/ Tick

SpecTest == Init /\ [][NextTest]_vars

\* SpecThreads: POST /sensor-data followed statement by statement on the
\* event loop while "def" handlers run in the pool: DELETE /readings in one
\* worker thread and GET /, GET /statistics or DELETE /alert-history in
\* another.  The server has no cooldown (ALERT_COOLDOWN_MINUTES=0), the n-th
\* request carries a too-hot reading with air_quality_raw = n, and the
\* requests to the pool arrive once QuietIngests readings were posted, when
\* both buffers are full.  The provider accepts a request or never answers it.
ThreadAnswers == {"ok", "hangs"}

InitThreads ==
  /\ Start
  /\ alert_settings = DefaultSettings
  /\ ALERT_COOLDOWN = 0
  /\ twilio_client = TRUE
  /\ phone_numbers = TRUE

NextThreads ==
  \/ ingest_count < MaxThreadIngests /\
       receive_sensor_data_append(Body("esp32", 40, 50, 10, ingest_count + 1))
  \/ LoopStep(ThreadAnswers)
  \/ ingest_count >= QuietIngests /\ WorkerStart("worker1")
  \/ ingest_count >= QuietIngests /\ clear_len("worker2")
  \/ \E t \in Workers : WorkerStep(t)

SpecThreads == InitThreads /\ [][NextThreads]_vars

\* SpecLive: the requests of SpecThreads on the event loop alone.  The event
\* loop always goes on with the statement it is at; nothing makes the
\* provider answer a request.
NextLive ==
  \/ ingest_count < MaxThreadIngests /\
       receive_sensor_data_append(Body("esp32", 40, 50, 10, ingest_count + 1))
  \/ LoopStep(ThreadAnswers)

SpecLive ==
  /\ InitThreads
  /\ [][NextLive]_vars
  /\ WF_vars(LoopStep(ThreadAnswers))

\* ------------------------------------------------------------- properties
AlertKeys ==
  {"temperature_high", "temperature_low", "humidity_high", "humidity_low",
   "air_quality_high"}

\* C1: every alert of a stored reading gets one iteration under the key
\* sensor_type, and that iteration attempts a dispatch if and only if
\* last_alert_time held no entry for the key or at least ALERT_COOLDOWN
\* minutes have passed since that entry.
C1_CooldownGate ==
  (IsIngest /\ result.status = "success") =>
    /\ Len(result.log) = Len(result.alerts)
    /\ \A i \in 1..Len(result.log) :
         LET e == result.log[i]
             k == result.alerts[i].sensor \o "_" \o result.alerts[i].type
             prior == result.before.lat
         IN  /\ e.key = k
             /\ e.time = now
             /\ Attempted(e) <=>
                  (k \notin DOMAIN prior \/ e.time - prior[k] >= ALERT_COOLDOWN)

\* An alert is dispatched again when exactly ALERT_COOLDOWN minutes have passed.
C1_Witness ==
  /\ IsIngest
  /\ \E e \in LogEntries :
       /\ e.key \in DOMAIN result.before.lat
       /\ e.time - result.before.lat[e.key] = ALERT_COOLDOWN
       /\ Attempted(e)
       /\ e.success

\* C2: an entry of last_alert_time is created or overwritten only by the
\* iteration of a POST /sensor-data for that key whose dispatch succeeded, and
\* then with that iteration's time; an iteration that was skipped or whose
\* dispatch failed leaves the entry of its key as it was.
C2_CooldownWrittenOnlyOnSuccess ==
  LET prior == result.before.lat
  IN  /\ \A k \in DOMAIN last_alert_time :
           (k \notin DOMAIN prior \/ last_alert_time[k] # prior[k]) =>
             /\ IsIngest
             /\ \E e \in LogEntries :
                  e.key = k /\ e.success /\ last_alert_time[k] = e.time
      /\ IsIngest =>
           \A e \in LogEntries :
             ~e.success =>
               /\ e.key \in DOMAIN last_alert_time <=> e.key \in DOMAIN prior
               /\ e.key \in DOMAIN prior =>
                    last_alert_time[e.key] = prior[e.key]

\* A dispatch reached the provider, failed on every channel and started no
\* cooldown.
C2_Witness ==
  /\ IsIngest
  /\ twilio_client /\ phone_numbers
  /\ \E e \in LogEntries :
       Attempted(e) /\ ~e.success /\ e.key \notin DOMAIN last_alert_time

\* The history records of the iterations i.. of the last request that
\* dispatched with success, in order.
RECURSIVE SentRecords(_)
SentRecords(i) ==
  IF i > Len(result.log)
  THEN <<>>
  ELSE LET e == result.log[i]
           a == result.alerts[i]
       IN  (IF ~e.skipped /\ e.success
            THEN <<[timestamp |-> e.time, alert_type |-> a.type,
                    sensor |-> a.sensor, value |-> a.value,
                    threshold |-> a.threshold,
                    method |-> alert_settings.alert_method,
                    status |-> "sent"]>>
            ELSE <<>>) \o SentRecords(i + 1)

\* C4: a POST /sensor-data appends to alert_history exactly one record with
\* status "sent" for each alert that was not skipped and whose dispatch
\* succeeded, and the cooldown entry of that key holds the record's
\* timestamp; a skipped alert calls no channel; with alerts disabled nothing
\* is evaluated, called, recorded or changed in the cooldowns; no other
\* request but DELETE /alert-history changes alert_history.
C4_HistoryExactlyOnSuccess ==
  /\ IsIngest =>
       /\ alert_history =
            LastN(result.before.history \o SentRecords(1), MAX_ALERTS)
       /\ \A e \in LogEntries :
            /\ e.skipped => ~Attempted(e)
            /\ (~e.skipped /\ e.success) =>
                 /\ e.key \in DOMAIN last_alert_time
                 /\ last_alert_time[e.key] = e.time
       /\ ~alert_settings.enabled =>
            /\ result.log = <<>>
            /\ alert_history = result.before.history
            /\ last_alert_time = result.before.lat
  /\ result.op \notin {"receive_sensor_data", "clear_alerts"} =>
       alert_history = result.before.history

\* One reading with two alerts: the first skipped by its cooldown, the second
\* dispatched and recorded.
C4_Witness ==
  /\ IsIngest
  /\ \E e \in LogEntries : e.skipped
  /\ \E e \in LogEntries : e.success
  /\ Len(alert_history) = Len(result.before.history) + 1
  /\ alert_history[Len(alert_history)].status = "sent"

\* C7: DELETE /readings empties sensor_readings and leaves alert_history and
\* last_alert_time as they were; DELETE /alert-history empties alert_history
\* and last_alert_time, so that no key is under cooldown at any later time,
\* and leaves sensor_readings as it was.
C7_ClearFrames ==
  /\ result.op = "clear" =>
       /\ sensor_readings = <<>>
       /\ alert_history = result.before.history
       /\ last_alert_time = result.before.lat
  /\ result.op = "clear_alerts" =>
       /\ alert_history = <<>>
       /\ DOMAIN last_alert_time = {}
       /\ \A k \in AlertKeys : \A t \in now..MaxTime :
            ~CooldownActive(last_alert_time, k, t)
       /\ sensor_readings = result.before.readings

\* DELETE /alert-history on a server that holds readings, history records and
\* a cooldown that is still running.
C7_Witness ==
  /\ result.op = "clear_alerts"
  /\ result.before.history # <<>>
  /\ \E k \in DOMAIN result.before.lat :
       now - result.before.lat[k] < ALERT_COOLDOWN
  /\ sensor_readings # <<>>

\* C10: when a POST /sensor-data attempts a dispatch and every channel it
\* calls fails, the request still answers success, its reading is the newest
\* of the store, and neither a history record nor a cooldown entry is written.
C10_ChannelFailureNotFatal ==
  (/\ IsIngest
   /\ \E e \in LogEntries : Attempted(e)
   /\ \A e \in LogEntries : ~(e.sms_ret \/ e.call_ret)) =>
    /\ result.status = "success"
    /\ sensor_readings # <<>>
    /\ sensor_readings[Len(sensor_readings)] = result.data[1]
    /\ alert_history = result.before.history
    /\ last_alert_time = result.before.lat

\* Both channels were called on a configured server, the provider raised on
\* each, and the request answered success.
C10_Witness ==
  /\ IsIngest
  /\ twilio_client /\ phone_numbers
  /\ \E e \in LogEntries : e.sms_called /\ e.call_called
  /\ \A e \in LogEntries : ~(e.sms_ret \/ e.call_ret)
  /\ result.status = "success"

\* The overall result in entry e is the or of the results of the channels
\* that method m attempts.
ResultIsOr(m, e) ==
  /\ e.success = ((e.sms_called /\ e.sms_ret) \/ (e.call_called /\ e.call_ret))
  /\ m = "both" => e.sms_called /\ e.call_called
                     /\ e.success = (e.sms_ret \/ e.call_ret)
  /\ m = "sms" => e.sms_called /\ ~e.call_called /\ e.success = e.sms_ret
  /\ m = "call" => ~e.sms_called /\ e.call_called /\ e.success = e.call_ret

\* C3: the overall result of a dispatch, in the alert loop and in POST
\* /test-alert, is the logical or of the results of the channels attempted:
\* with "both" either channel's success suffices and both failing fails; with
\* "sms" or "call" it is that channel's result.  The alert loop records the
\* alert exactly when that result is true, and /test-alert answers success
\* exactly then.
C3_DispatchResultIsOr ==
  /\ IsIngest =>
       \A i \in 1..Len(result.log) :
         LET e == result.log[i]
         IN  ~e.skipped =>
               /\ ResultIsOr(alert_settings.alert_method, e)
               /\ e.success <=>
                    (/\ e.key \in DOMAIN last_alert_time
                     /\ last_alert_time[e.key] = e.time
                     /\ \E j \in 1..Len(alert_history) :
                          /\ alert_history[j].sensor = result.alerts[i].sensor
                          /\ alert_history[j].alert_type = result.alerts[i].type
                          /\ alert_history[j].timestamp = e.time)
  /\ result.op = "test_alert" =>
       /\ ~twilio_client => result.log = <<>> /\ result.status = "error"
       /\ \A e \in LogEntries :
            /\ ResultIsOr(result.arg, e)
            /\ (result.status = "success") = e.success

\* Method "both": the SMS failed, the call succeeded and the alert was
\* recorded.
C3_Witness ==
  /\ IsIngest
  /\ alert_settings.alert_method = "both"
  /\ \E e \in LogEntries :
       /\ e.sms_called /\ ~e.sms_ret /\ e.call_called /\ e.call_ret
       /\ e.success
  /\ alert_history # <<>>

Rank(sensor) ==
  CASE sensor = "temperature" -> 1
    [] sensor = "humidity" -> 2
    [] sensor = "air_quality" -> 3

\* The alerts of the last request for one sensor and direction.
AlertsOf(sensor, type) ==
  {i \in 1..Len(result.alerts) :
     result.alerts[i].sensor = sensor /\ result.alerts[i].type = type}

\* C8: with alerts enabled, for temperature and for humidity the handler
\* evaluates at most one alert: "high" iff the value is above the max
\* threshold, "low" iff it is not above the max and is below the min, also
\* when min >= max; for air quality "high" iff the value is above
\* air_quality_max and never "low"; a value equal to a threshold gives none;
\* the alerts are in the order temperature, humidity, air_quality.
C8_ThresholdEvaluator ==
  (IsIngest /\ alert_settings.enabled) =>
    LET r == result.data[1]
        s == alert_settings
    IN  /\ Cardinality(AlertsOf("temperature", "high")) =
             (IF r.temperature > s.temp_max THEN 1 ELSE 0)
        /\ Cardinality(AlertsOf("temperature", "low")) =
             (IF r.temperature <= s.temp_max /\ r.temperature < s.temp_min
              THEN 1 ELSE 0)
        /\ Cardinality(AlertsOf("humidity", "high")) =
             (IF r.humidity > s.humidity_max THEN 1 ELSE 0)
        /\ Cardinality(AlertsOf("humidity", "low")) =
             (IF r.humidity <= s.humidity_max /\ r.humidity < s.humidity_min
              THEN 1 ELSE 0)
        /\ Cardinality(AlertsOf("air_quality", "high")) =
             (IF r.air_quality > s.air_quality_max THEN 1 ELSE 0)
        /\ AlertsOf("air_quality", "low") = {}
        /\ \A i \in 1..Len(result.alerts) :
             /\ result.alerts[i].sensor \in
                  {"temperature", "humidity", "air_quality"}
             /\ result.alerts[i].type \in {"high", "low"}
        /\ \A i, j \in 1..Len(result.alerts) :
             i < j => Rank(result.alerts[i].sensor) < Rank(result.alerts[j].sensor)

\* temp_min above temp_max and a temperature between them: "high" only, and
\* the reading has an alert for each of the three sensors.
C8_Witness ==
  /\ IsIngest
  /\ alert_settings.temp_min > alert_settings.temp_max
  /\ result.data[1].temperature > alert_settings.temp_max
  /\ result.data[1].temperature < alert_settings.temp_min
  /\ Len(result.alerts) = 3
  /\ result.alerts[1].type = "high"

\* The reading and the thresholds of the end-to-end scenario.
ScenarioReading(r) == r.temperature = 40 /\ r.humidity = 50 /\ r.air_quality = 10

ScenarioSettings ==
  /\ alert_settings.enabled /\ alert_settings.alert_method = "both"
  /\ alert_settings.temp_max = 35 /\ alert_settings.humidity_max = 80
  /\ alert_settings.humidity_min = 20 /\ alert_settings.air_quality_max = 70
  /\ ALERT_COOLDOWN = 15

\* rec is the record of a high-temperature alert sent at time t.
HighTemperatureSent(rec, t) ==
  /\ rec.sensor = "temperature" /\ rec.alert_type = "high"
  /\ rec.status = "sent" /\ rec.timestamp = t

\* C5: from the empty state, with the scenario's settings and both channels
\* succeeding, the first too-hot reading leaves exactly one history record
\* (temperature, high, sent); the same reading 1 minute later adds none; the
\* same reading 16 minutes after the first adds a second record.
C5_EndToEnd ==
  LET n == Len(sensor_readings)
      at(i) == sensor_readings[i].timestamp
  IN  (/\ ScenarioSettings
       /\ n = ingest_count
       /\ \A i \in 1..n : ScenarioReading(sensor_readings[i])) =>
        /\ n = 1 =>
             /\ Len(alert_history) = 1
             /\ HighTemperatureSent(alert_history[1], at(1))
        /\ (n = 2 /\ at(2) = at(1) + 1) =>
             /\ Len(alert_history) = 1
             /\ HighTemperatureSent(alert_history[1], at(1))
        /\ (n = 2 /\ at(2) = at(1) + 16) =>
             /\ Len(alert_history) = 2
             /\ HighTemperatureSent(alert_history[2], at(2))
        /\ (n = 3 /\ at(2) = at(1) + 1 /\ at(3) = at(1) + 16) =>
             /\ Len(alert_history) = 2
             /\ HighTemperatureSent(alert_history[1], at(1))
             /\ HighTemperatureSent(alert_history[2], at(3))

\* The whole scenario: readings at minutes t, t + 1 and t + 16, two records.
C5_Witness ==
  /\ ScenarioSettings
  /\ Len(sensor_readings) = 3
  /\ \A i \in 1..3 : ScenarioReading(sensor_readings[i])
  /\ sensor_readings[2].timestamp = sensor_readings[1].timestamp + 1
  /\ sensor_readings[3].timestamp = sensor_readings[1].timestamp + 16
  /\ Len(alert_history) = 2
  /\ alert_history[2].timestamp = sensor_readings[3].timestamp

\* C6: after N readings were appended since the start or the last DELETE
\* /readings, the store holds min(N, MAX_READINGS) readings, and they are the
\* last min(N, MAX_READINGS) of them in the order they arrived.
C6_StoreKeepsNewest ==
  /\ Len(sensor_readings) = Min(Len(ingested), MAX_READINGS)
  /\ \A i \in 1..Len(sensor_readings) :
       sensor_readings[i] =
         ingested[Len(ingested) - Len(sensor_readings) + i]

\* Two readings more than the capacity arrived: the two oldest are gone.
C6_Witness ==
  /\ Len(ingested) = MAX_READINGS + 2
  /\ Len(sensor_readings) = MAX_READINGS
  /\ sensor_readings[1] = ingested[3]
  /\ sensor_readings[1] # ingested[1]

\* C9: GET /readings?limit=n with n >= 0, n = 0 included, returns at most n
\* readings: the min(n, size) newest of the store, oldest first.
C9_RecentReturnsAtMostLimit ==
  result.op = "get_all" =>
    /\ Len(result.data) <= result.arg
    /\ result.data = LastN(sensor_readings, result.arg)
    /\ result.count = Len(result.data)

\* C11: in every state, the states between two statements of an ingest
\* included (a handler in the worker thread can observe them, as GET / does
\* with total_readings), sensor_readings holds at most MAX_READINGS readings
\* and alert_history at most MAX_ALERTS records, and the store is what is
\* left of the readings appended since the last clear() after removals at
\* its head.
C11_BuffersBounded ==
  /\ Len(sensor_readings) <= MAX_READINGS
  /\ Len(alert_history) <= MAX_ALERTS
  /\ result.op = "root" => result.count <= MAX_READINGS
  /\ sensor_readings = LastN(ingested, Len(sensor_readings))

\* C12: whatever the event loop does between the statements of clear(), the
\* count that DELETE /readings reports is the number of readings its
\* "sensor_readings = []" removed from the store.
C12_ClearCountsWhatItRemoves ==
  result.op = "clear" =>
    /\ result.status = "success"
    /\ result.count = Len(result.before.readings)

\* C13: POST /test-alert on a configured server calls the channels of its
\* method and answers with their result, whether alerts are enabled or not
\* and whatever last_alert_time holds, and it leaves sensor_readings,
\* alert_history and last_alert_time as they were, on success and on failure.
C13_TestAlertBypasses ==
  result.op = "test_alert" =>
    /\ sensor_readings = result.before.readings
    /\ alert_history = result.before.history
    /\ last_alert_time = result.before.lat
    /\ twilio_client =>
         /\ Len(result.log) = 1
         /\ result.log[1].sms_called <=> result.arg \in {"sms", "both"}
         /\ result.log[1].call_called <=> result.arg \in {"call", "both"}
         /\ result.status = "success" <=>
              (result.log[1].sms_ret \/ result.log[1].call_ret)
    /\ ~twilio_client => result.status = "error"

\* A test alert is sent while alerts are disabled and the cooldown of an
\* earlier, recorded alert is running.
C13_Witness ==
  /\ result.op = "test_alert"
  /\ ~alert_settings.enabled
  /\ CooldownActive(last_alert_time, "temperature_high", now)
  /\ alert_history # <<>>
  /\ Attempted(result.log[1])
  /\ result.status = "success"

\* C14: an iteration of the alert loop that is not skipped calls the SMS
\* channel exactly when the method is "sms" or "both" and the voice channel
\* exactly when it is "call" or "both", whatever the other channel returned;
\* a skipped iteration calls neither.
C14_ChannelsByMethodOnly ==
  IsIngest =>
    \A e \in LogEntries :
      /\ e.skipped => ~e.sms_called /\ ~e.call_called
      /\ ~e.skipped =>
           /\ e.sms_called <=> alert_settings.alert_method \in {"sms", "both"}
           /\ e.call_called <=>
                alert_settings.alert_method \in {"call", "both"}

\* Method "both": the SMS was accepted and the call was made all the same.
C14_Witness ==
  /\ IsIngest
  /\ alert_settings.alert_method = "both"
  /\ twilio_client /\ phone_numbers
  /\ \E e \in LogEntries : e.sms_called /\ e.sms_ret /\ e.call_called
  /\ \E e \in LogEntries : e.sms_called /\ ~e.sms_ret /\ e.call_called

\* C15: an alert is skipped only on account of the entry of its own key: an
\* alert whose key has no entry in last_alert_time is dispatched whatever the
\* entries of other keys (of the other direction of the same sensor, of
\* other sensors) and whether or not earlier alerts of the same reading were
\* skipped.
C15_CooldownPerKey ==
  IsIngest =>
    \A j \in 1..Len(result.log) :
      LET e == result.log[j]
          prior == result.before.lat
      IN  /\ e.skipped =>
               /\ e.key \in DOMAIN prior
               /\ e.time - prior[e.key] < ALERT_COOLDOWN
          /\ e.key \notin DOMAIN prior => ~e.skipped /\ Attempted(e)
          /\ \A i \in 1..(j - 1) : result.log[i].key # e.key

\* One reading, two alerts: the first is skipped for its cooldown, the second
\* has no entry of its own and is dispatched and recorded.
C15_Witness ==
  /\ IsIngest
  /\ Len(result.log) = 2
  /\ result.log[1].skipped
  /\ result.log[2].key \notin DOMAIN result.before.lat
  /\ Attempted(result.log[2])
  /\ result.log[2].success
  /\ result.log[2].key \in DOMAIN last_alert_time

\* The alert key that a record of alert_history was dispatched under.
RecordKey(record) == record.sensor \o "_" \o record.alert_type

\* C16: any two records of alert_history for the same key (none removed by a
\* DELETE /alert-history in between) are at least ALERT_COOLDOWN minutes
\* apart, and no request other than DELETE /alert-history removes an entry of
\* last_alert_time or moves it back in time.
C16_MinimumGap ==
  /\ \A i, j \in 1..Len(alert_history) :
       (i < j /\ RecordKey(alert_history[i]) = RecordKey(alert_history[j]))
         => alert_history[j].timestamp - alert_history[i].timestamp
              >= ALERT_COOLDOWN
  /\ result.op # "clear_alerts" =>
       \A k \in DOMAIN result.before.lat :
         /\ k \in DOMAIN last_alert_time
         /\ last_alert_time[k] >= result.before.lat[k]

\* A second alert for a key is recorded once the cooldown of the first has
\* run out, and the entry of the key moves forward.
C16_Witness ==
  /\ IsIngest
  /\ Len(alert_history) = 2
  /\ RecordKey(alert_history[1]) = RecordKey(alert_history[2])
  /\ alert_history[2].timestamp > alert_history[1].timestamp
  /\ last_alert_time[RecordKey(alert_history[2])]
       > result.before.lat[RecordKey(alert_history[2])]

\* C17: whatever the worker thread does between the statements of an ingest,
\* pop(0) is never reached on an empty sensor_readings or alert_history, and
\* a POST /sensor-data with a well-formed body is never answered with an
\* error.
C17_EvictionNeverFails ==
  /\ pc["loop"] = "pop_readings" => sensor_readings # <<>>
  /\ pc["loop"] = "pop_alerts" => alert_history # <<>>
  /\ IsIngest => result.status = "success"

\* C18: GET /statistics answers "no data" when it finds the store empty and
\* otherwise computes the statistics of temperature, humidity and air
\* quality over one and the same non-empty list of readings, whatever the
\* event loop and DELETE /readings do between its statements; it never
\* fails on an empty list.
C18_StatisticsNeverOnEmpty ==
  result.op = "get_statistics" =>
    /\ result.status \in {"no_data", "success"}
    /\ result.status = "no_data" => result.before.readings = <<>>
    /\ result.status = "success" =>
         /\ result.data[1] # <<>>
         /\ result.data[2] = result.data[1]
         /\ result.data[3] = result.data[1]

\* C19: in every state, whatever DELETE /alert-history does between the
\* statements of an ingest, every record of alert_history has an entry in
\* last_alert_time under its key sensor_type, and that entry is not older
\* than the record.
C19_HistoryHasCooldownEntry ==
  \A i \in 1..Len(alert_history) :
    /\ RecordKey(alert_history[i]) \in DOMAIN last_alert_time
    /\ last_alert_time[RecordKey(alert_history[i])]
         >= alert_history[i].timestamp

\* C20: a POST /sensor-data that has started is eventually answered, also
\* when the provider never answers a request of a notification channel.
C20_IngestCompletes ==
  (pc["loop"] # "idle") ~> (pc["loop"] = "idle")

====
